---- MODULE Spec2Model ----
(***************************************************************************)
(* Model of the streaming-chat session manager of the news-agent front end *)
(* (frontend/lib/hooks/useStreamingChat.ts): the message log, the          *)
(* streaming buffer, the error and loading flags, the shared abort         *)
(* controller reference, the timeout timers and every sendMessage call in  *)
(* flight.  Text is modelled as a sequence of one-character strings so     *)
(* that the preference formatter is computed the way the code computes it. *)
(***************************************************************************)
EXTENDS Integers, Sequences, FiniteSets, TLC

\* ------------------------------------------------------------------ bounds
MaxCalls == 3      \* sendMessage calls issued in one behaviour
MaxRecords == 2    \* lines the transport delivers in one behaviour
MaxLines == 2      \* lines in one body fragment
MaxStream == 3     \* lines of the stream of a single call
MaxClears == 1     \* clearMessages calls in one behaviour
MaxRecreate == 2   \* times sendMessage is re-created in one behaviour
MaxLog == 101      \* entries of the longest log handed to saveMessages
MaxTicks == 2      \* days the clock advances in one behaviour
MaxSent == 3       \* records the server sends in the stream of one call

\* ------------------------------------------------------------------- text
Lower == <<"a","b","c","d","e","f","g","h","i","j","k","l","m","n","o","p","q","r","s","t","u","v","w","x","y","z">>
Upper == <<"A","B","C","D","E","F","G","H","I","J","K","L","M","N","O","P","Q","R","S","T","U","V","W","X","Y","Z">>

toUpperCh(ch) ==
  IF \E i \in 1..Len(Lower) : Lower[i] = ch
  THEN Upper[CHOOSE i \in 1..Len(Lower) : Lower[i] = ch]
  ELSE ch

toLowerCh(ch) ==
  IF \E i \in 1..Len(Upper) : Upper[i] = ch
  THEN Lower[CHOOSE i \in 1..Len(Upper) : Upper[i] = ch]
  ELSE ch

toUpperCase(s) == [i \in 1..Len(s) |-> toUpperCh(s[i])]
toLowerCase(s) == [i \in 1..Len(s) |-> toLowerCh(s[i])]

startsWith(s, p) == Len(s) >= Len(p) /\ SubSeq(s, 1, Len(p)) = p

\* s.slice(n): the text from 0-based index n on
sliceFrom(s, n) == SubSeq(s, n + 1, Len(s))

\* index of the first occurrence of character ch in s, 0 when there is none
IndexOfCh(s, ch) ==
  IF \E i \in 1..Len(s) : s[i] = ch
  THEN CHOOSE i \in 1..Len(s) : s[i] = ch /\ \A j \in 1..(i - 1) : s[j] # ch
  ELSE 0

includes(s, ch) == IndexOfCh(s, ch) # 0

\* s.split(ch): always at least one part
RECURSIVE split(_, _)
split(s, ch) ==
  LET i == IndexOfCh(s, ch)
  IN IF i = 0 THEN <<s>>
     ELSE <<SubSeq(s, 1, i - 1)>> \o split(SubSeq(s, i + 1, Len(s)), ch)

\* parts.join(sep)
RECURSIVE join(_, _)
join(parts, sep) ==
  IF Len(parts) = 0 THEN <<>>
  ELSE IF Len(parts) = 1 THEN parts[1]
  ELSE parts[1] \o sep \o join(Tail(parts), sep)

RECURSIVE trimStart(_)
trimStart(s) == IF Len(s) > 0 /\ s[1] = " " THEN trimStart(Tail(s)) ELSE s

RECURSIVE trimEnd(_)
trimEnd(s) ==
  IF Len(s) > 0 /\ s[Len(s)] = " " THEN trimEnd(SubSeq(s, 1, Len(s) - 1)) ELSE s

trim(s) == trimEnd(trimStart(s))

\* word.charAt(0).toUpperCase() + word.slice(1).toLowerCase()
capitalize(word) ==
  IF Len(word) = 0 THEN <<>>
  ELSE <<toUpperCh(word[1])>> \o toLowerCase(sliceFrom(word, 1))

\* s.split("_").map(capitalize).join(" ")
titleCase(s) ==
  LET words == split(s, "_")
  IN join([i \in 1..Len(words) |-> capitalize(words[i])], <<" ">>)

PREFIX == <<"P","R","E","F","E","R","E","N","C","E","_","S","E","L","E","C","T","I","O","N",":">>
INIT_CONVERSATION == <<"_","_","I","N","I","T","_","C","O","N","V","E","R","S","A","T","I","O","N","_","_">>

\* the fixed lookup table of preference types, as <<key, label>> pairs
formatMap ==
  { << <<"t","o","n","e">>,
       <<"P","r","e","f","e","r","r","e","d"," ","T","o","n","e"," ","o","f"," ","V","o","i","c","e">> >>,
    << <<"n","e","w","s","_","t","o","p","i","c","s">>,
       <<"N","e","w","s"," ","T","o","p","i","c"," ","I","n","t","e","r","e","s","t">> >>,
    << <<"l","a","n","g","u","a","g","e">>,
       <<"L","a","n","g","u","a","g","e"," ","P","r","e","f","e","r","e","n","c","e">> >>,
    << <<"r","e","g","i","o","n">>,
       <<"R","e","g","i","o","n"," ","P","r","e","f","e","r","e","n","c","e">> >>,
    << <<"d","e","p","t","h">>,
       <<"C","o","n","t","e","n","t"," ","D","e","p","t","h"," ","P","r","e","f","e","r","e","n","c","e">> >>,
    << <<"s","o","u","r","c","e","_","t","y","p","e">>,
       <<"S","o","u","r","c","e"," ","T","y","p","e"," ","P","r","e","f","e","r","e","n","c","e">> >>,
    << <<"i","n","t","e","r","a","c","t","i","o","n","_","s","t","y","l","e">>,
       <<"I","n","t","e","r","a","c","t","i","o","n"," ","S","t","y","l","e">> >>,
    << <<"f","o","r","m","a","t">>,
       <<"F","o","r","m","a","t"," ","P","r","e","f","e","r","e","n","c","e">> >> }

\* the fixed table of special-case values, as <<key, label>> pairs
specialCases ==
  { << <<"b","u","l","l","e","t","_","p","o","i","n","t","s">>,
       <<"B","u","l","l","e","t"," ","P","o","i","n","t","s">> >>,
    << <<"n","u","m","b","e","r","e","d","_","l","i","s","t">>,
       <<"N","u","m","b","e","r","e","d"," ","L","i","s","t">> >>,
    << <<"q","_","a","n","d","_","a">>, <<"Q","&","A">> >>,
    << <<"a","p","i">>, <<"A","P","I">> >>,
    << <<"u","s","a">>, <<"U","S","A">> >>,
    << <<"u","k">>, <<"U","K">> >>,
    << <<"e","u">>, <<"E","U">> >> }

HasKey(table, key) == \E e \in table : e[1] = key
Lookup(table, key) == (CHOOSE e \in table : e[1] = key)[2]

formatValue(val) ==
  IF includes(val, ",")
  THEN LET items == split(val, ",")
       IN join([i \in 1..Len(items) |-> capitalize(trim(items[i]))], <<",", " ">>)
  ELSE IF HasKey(specialCases, toLowerCase(val))
       THEN Lookup(specialCases, toLowerCase(val))
       ELSE titleCase(val)

\* variant: the parts after the second are ignored
formatPreferenceMessage_AnyParts(message) ==
  IF ~startsWith(message, PREFIX) THEN message
  ELSE LET parts == split(sliceFrom(message, Len(PREFIX)), ":")
       IN IF Len(parts) < 2 THEN message
          ELSE LET preferenceType == parts[1]
                   value == parts[2]
                   formattedType ==
                     IF HasKey(formatMap, preferenceType)
                     THEN Lookup(formatMap, preferenceType)
                     ELSE titleCase(preferenceType)
               IN formattedType \o <<":", " ">> \o formatValue(value)

\* formatPreferenceMessage(message)
formatPreferenceMessage(message) ==
  IF ~startsWith(message, PREFIX) THEN message
  ELSE LET parts == split(sliceFrom(message, Len(PREFIX)), ":")
       IN IF Len(parts) # 2 THEN message
          ELSE LET preferenceType == parts[1]
                   value == parts[2]
                   formattedType ==
                     IF HasKey(formatMap, preferenceType)
                     THEN Lookup(formatMap, preferenceType)
                     ELSE titleCase(preferenceType)
               IN formattedType \o <<":", " ">> \o formatValue(value)


\* ---------------------------------------------------------- values, inputs
\* text | null: streamingMessage and error
Null == [isNull |-> TRUE, text |-> <<>>]
Text(s) == [isNull |-> FALSE, text |-> s]

\* what a try block ends with: nothing thrown, an AbortError, another Error
NoExc == [name |-> "none", message |-> <<>>]
AbortError == [name |-> "AbortError", message |-> <<"The operation was aborted.">>]
Err(parts) == [name |-> "Error", message |-> parts]

OfflineMessage == <<"You're offline. Please check your connection and try again.">>
NoBodyMessage == <<"No response body">>
NetworkMessage == <<"Failed to fetch">>
UnknownMessage == <<"Unknown error">>
statusText(status) == IF status = 503 THEN "Service Unavailable" ELSE "OK"
\* the decimal text of a status code
statusString(status) == IF status = 503 THEN "503" ELSE "200"
\* `Failed to send message: ${response.status} ${response.statusText}`
HttpMessage(status) ==
  <<"Failed to send message: ", statusString(status), " ", statusText(status)>>

HttpStatuses == {200, 503}
responseOk(status) == status >= 200 /\ status <= 299

\* contents the callers of sendMessage pass it
Hello == <<"h","e","l","l","o">>
ToneCasual == PREFIX \o <<"t","o","n","e",":","c","a","s","u","a","l">>
UserContents == {ToneCasual}

\* what the pill "english" of a language question sends
LanguageEnglish == PREFIX \o <<"l","a","n","g","u","a","g","e",":","e","n","g","l","i","s","h">>

\* contents handed to the formatter: the selections of the quick-reply pills
\* and texts typed into the input
TopicsSelection == PREFIX \o <<"t","o","p","i","c","s",":","t","e","c","h","n","o","l","o","g","y",",","s","p","o","r","t","s">>
NewsTopicsSelection == PREFIX \o <<"n","e","w","s","_","t","o","p","i","c","s",":","t","e","c","h","n","o","l","o","g","y",",","s","p","o","r","t","s">>
FormatQAndA == PREFIX \o <<"f","o","r","m","a","t",":","q","_","a","n","d","_","a">>
RegionUK == PREFIX \o <<"r","e","g","i","o","n",":","u","k">>
ToneShouted == PREFIX \o <<"t","o","n","e",":","C","A","S","U","A","L">>
ReadingLevelHigh == PREFIX \o <<"r","e","a","d","i","n","g","_","l","e","v","e","l",":","h","i","g","h">>
OnePart == PREFIX \o <<"t","o","n","e">>
ThreeParts == PREFIX \o <<"t","o","n","e",":","a",":","b">>
LowerCasePrefix == <<"p","r","e","f","e","r","e","n","c","e","_","s","e","l","e","c","t","i","o","n",":","t","o","n","e",":","c","a","s","u","a","l">>
PrefixInside == <<"x"," ","P","R","E","F","E","R","E","N","C","E","_","S","E","L","E","C","T","I","O","N",":","t","o","n","e",":","c","a","s","u","a","l">>
FormatInputs ==
  { Hello, ToneCasual, TopicsSelection, NewsTopicsSelection, FormatQAndA,
    RegionUK, ToneShouted, ReadingLevelHigh, OnePart, ThreeParts,
    LowerCasePrefix, PrefixInside }

\* a preferences snapshot an event carries: tone set to casual
Snapshot == Text(<<"casual">>)

\* a preferences object with tone and language set (an object is written as
\* the values it sets)
SnapshotEnglish == Text(<<"casual", "english">>)

\* preferences.language of a preferences object is set
language(prefs) ==
  ~prefs.isNull /\ \E i \in 1..Len(prefs.text) : prefs.text[i] = "english"

\* one line of a decoded body fragment (chunk.split("\n")):
\*   kind "nomarker": does not start with "data: "
\*   kind "malformed": starts with "data: ", payload is not parsable JSON
\*   otherwise the payload parses and kind is its type discriminator;
\*   text is content (chunk), message.content (complete_message), error (error);
\*   none says that the payload has no error field; preferences is the
\*   preferences field of the payload, Null when it has none
EventLine(kind, text, none, preferences) ==
  [kind |-> kind, text |-> text, none |-> none, preferences |-> preferences]
Line(kind, text) == EventLine(kind, text, FALSE, Null)
Lines ==
  { Line("chunk", <<"a">>), Line("complete_message", <<"q">>),
    Line("complete", <<>>), Line("error", <<"boom">>),
    Line("malformed", <<>>), Line("nomarker", <<>>) }

RECURSIVE SeqsUpTo(_, _)
SeqsUpTo(S, n) ==
  IF n = 0 THEN {<<>>}
  ELSE LET shorter == SeqsUpTo(S, n - 1)
       IN shorter \cup {Append(q, x) : q \in {r \in shorter : Len(r) = n - 1}, x \in S}

Fragments == SeqsUpTo(Lines, MaxLines) \ {<<>>}

\* the lines of the stream of a single call, with preferences snapshots and
\* an error event without error text
StreamLines ==
  { Line("chunk", <<"a">>), Line("chunk", <<"b">>),
    Line("complete", <<>>),
    EventLine("complete", <<>>, FALSE, Snapshot),
    EventLine("complete_message", <<"q">>, FALSE, Snapshot),
    Line("error", <<"boom">>),
    EventLine("error", <<>>, TRUE, Null),
    Line("malformed", <<>>), Line("nomarker", <<>>) }

StreamFragments == SeqsUpTo(StreamLines, MaxLines) \ {<<>>}

\* one entry of the message log; by is the call that created the entry
\* (0: recovered history), the identity the code keeps in timestamp
\* quick_reply_options says whether the entry carries quick-reply options
Message(role, content, by) ==
  [role |-> role, content |-> content, by |-> by, quick_reply_options |-> FALSE]

\* the assistant message of a complete_message event: a preference question
\* with the quick_reply_options of data.message
Question(content, by) ==
  [Message("assistant", content, by) EXCEPT !.quick_reply_options = TRUE]

RecoveredLog == <<Message("user", Hello, 0), Message("assistant", <<"q">>, 0)>>

CallIds == 1..MaxCalls
NewCall ==
  [pc |-> "new", content |-> <<>>, acc |-> <<>>, before |-> <<>>,
   completes |-> 0, appended |-> <<>>]
DoneCall == [NewCall EXCEPT !.pc = "done"]
NoLast ==
  [id |-> 0, outcome |-> "none", content |-> <<>>, before |-> <<>>,
   completes |-> 0, appended |-> <<>>, removed |-> <<>>]

\* ------------------------------------------------------------ persistence
\* messages.slice(-100)
Cap == 100
Day == 24 * 60 * 60 * 1000
MessagesMaxAge == 7 * 24 * 60 * 60 * 1000
SessionMaxAge == 24 * 60 * 60 * 1000
\* Date.now() when the page is loaded
StartTime == 10 * Day

ChatPrefix == <<"c","h","a","t","_","m","e","s","s","a","g","e","s","_">>
PreferencesKey == <<"u","s","e","r","_","p","r","e","f","e","r","e","n","c","e","s">>
ConversationIds == {<<"c","1">>, <<"c","2">>}
\* `chat_messages_${conversationId}`
MessagesKey(conversationId) == ChatPrefix \o conversationId
StorageKeys == {MessagesKey(id) : id \in ConversationIds} \cup {PreferencesKey}

\* a stored value: no item (getItem gives null), the empty string, a
\* non-empty string that is not JSON, or the JSON text of an object with
\* the fields conversationId, messages, timestamp (timestamp 0: no such field)
Stored(kind, conversationId, msgs, timestamp) ==
  [kind |-> kind, conversationId |-> conversationId, messages |-> msgs,
   timestamp |-> timestamp]
Absent == Stored("absent", <<>>, <<>>, 0)
EmptyString == Stored("empty", <<>>, <<>>, 0)
Garbage == Stored("garbage", <<>>, <<>>, 0)
\* JSON.stringify({conversationId, messages, timestamp})
stringify(conversationId, msgs, timestamp) ==
  Stored("json", conversationId, msgs, timestamp)
\* JSON.stringify(preferences)
StoredPreferences == Stored("json", <<>>, <<>>, 0)

\* if (data): the item exists and is not the empty string
truthy(data) == data.kind \notin {"absent", "empty"}
\* JSON.parse(data) returns
parses(data) == data.kind = "json"

\* a log of n entries, user and assistant in turn
LogOf(n) ==
  [i \in 1..n |-> Message(IF i % 2 = 1 THEN "user" ELSE "assistant", <<>>, i)]
\* the logs the save effect hands to saveMessages: never the empty one
SavedLogs == {LogOf(n) : n \in {1} \cup Cap..MaxLog}

\* what the storage holds when the page is loaded
StoredBefore(id) ==
  {Absent, EmptyString, Garbage}
    \cup {stringify(id, LogOf(1), StartTime - age) :
            age \in {MessagesMaxAge - Day, MessagesMaxAge, MessagesMaxAge + Day}}
StorageBefore ==
  {ls \in [StorageKeys -> UNION {StoredBefore(id) : id \in ConversationIds}
                            \cup {StoredPreferences}] :
     /\ ls[PreferencesKey] = StoredPreferences
     /\ \A id \in ConversationIds : ls[MessagesKey(id)] \in StoredBefore(id)}
NoStorage == [key \in StorageKeys |-> Absent]

\* SessionState | null
NoSession == [isNull |-> TRUE, conversationId |-> <<>>, lastActivity |-> 0]
Session(conversationId, lastActivity) ==
  [isNull |-> FALSE, conversationId |-> conversationId,
   lastActivity |-> lastActivity]
SessionsBefore ==
  {NoSession} \cup {Session(<<"c","1">>, StartTime - age) :
                      age \in {SessionMaxAge, SessionMaxAge + Day}}

Op(op, conversationId, msgs, accepted) ==
  [op |-> op, conversationId |-> conversationId, messages |-> msgs,
   accepted |-> accepted]
NoOp == Op("none", <<>>, <<>>, FALSE)

\* the conversation id of the page
CurrentConversation == <<"c","1">>

\* the lines of the streams the view is shown with: questions, answers, and
\* a completion whose snapshot sets the language
ViewLines ==
  { Line("chunk", <<"a">>), Line("complete", <<>>),
    Line("complete_message", <<"q">>),
    EventLine("complete", <<>>, FALSE, SnapshotEnglish),
    Line("error", <<"boom">>) }

\* the response body before the server has sent anything
NoBody == [sent |-> <<>>, rest |-> <<>>]

\* the event records a server sends, each the text of one line "data: <json>"
Records ==
  { Line("chunk", <<"a">>), Line("chunk", <<"b">>), Line("complete", <<>>),
    EventLine("complete_message", <<"q">>, FALSE, Snapshot),
    Line("error", <<"boom">>) }

\* where a read boundary of the transport can fall in the text of a record:
\* inside the marker "data: ", inside the JSON payload, or between the payload
\* and the newline that ends the line
Cuts == {"marker", "payload", "end"}

\* the lines chunk.split("\n") gives for the two fragments of a record cut
\* at a read boundary: text before the end of the marker does not start with
\* "data: ", a proper prefix of a JSON object does not parse, and the
\* remainder of the record does not start with the marker
cut(record, at) ==
  IF at = "marker"
  THEN <<Line("nomarker", <<>>), Line("nomarker", <<>>)>>
  ELSE IF at = "payload"
  THEN <<Line("malformed", <<>>), Line("nomarker", <<>>)>>
  ELSE <<record, Line("nomarker", <<>>)>>

\* navigator.connection.effectiveType, "none" when the browser has no
\* Network Information API
EffectiveTypes == {"none", "slow-2g", "2g", "3g", "4g"}

\* updateNetworkStatus(): the status built from navigator.onLine and
\* navigator.connection
updateNetworkStatus(onLine, effectiveType) ==
  [isOnline |-> onLine,
   isSlowConnection |-> effectiveType \in {"slow-2g", "2g"},
   effectiveType |-> IF effectiveType = "none" THEN "unknown" ELSE effectiveType]

\* baseTimeouts of getRecommendedTimeout, in milliseconds
baseTimeouts ==
  [api |-> 30000, upload |-> 120000, download |-> 60000, general |-> 30000]

\* getRecommendedTimeout(operation) of a render whose status is status
getRecommendedTimeout(status, operation) ==
  LET baseTimeout == baseTimeouts[operation]
  IN IF ~status.isOnline THEN 0
     ELSE IF status.isSlowConnection THEN baseTimeout * 2
     ELSE IF status.effectiveType = "slow-2g" THEN baseTimeout * 3
     ELSE IF status.effectiveType = "2g" THEN baseTimeout * 2
     ELSE IF status.effectiveType = "3g" THEN (baseTimeout * 3) \div 2
     ELSE baseTimeout

\* ------------------------------------------------------------------ state
VARIABLES
  initialMessages,     \* the log the session is constructed with
  messages,            \* useState: the message log
  streamingMessage,    \* useState: text | null
  isStreaming,         \* useState
  error,               \* useState: text | null
  hasInitialized,      \* useState
  activated,           \* the auto-start effect has run once
  abortControllerRef,  \* useRef: 0 is null, c is the controller call c created
  aborted,             \* controllers of pending requests whose signal is aborted
  timers,              \* calls whose timeout timer is pending
  calls,               \* every sendMessage call: pc, and while it runs its
                       \* content, accumulatedMessage, the log before the
                       \* call, completion events dispatched, roles appended
  last,                \* the call that returned last: its id, outcome and
                       \* history, and the entry its rollback removed
  delivered,           \* lines of body fragments delivered so far
  prefUpdates,         \* the snapshots onPreferencesUpdate was called with
  received,            \* single-call stream: the lines read so far
  clears,              \* calls of clearMessages so far
  initSends,           \* sendMessage calls issued with the init sentinel
  recreations,         \* times a dependency change re-created sendMessage
  localStorage,        \* window.localStorage: key -> stored value
  sessionState,        \* useLocalStorage("session_state"): the session state
  now,                 \* Date.now()
  lastOp,              \* the persistence operation that ran last
  body,                \* the response body: the records the server has sent,
                       \* and the part of a record cut by a read boundary
                       \* that is still to arrive
  isSubmitted,         \* QuickReplyPills useState: the log positions whose
                       \* pills have been submitted
  userPreferences,     \* usePreferences of the page: the preferences object
  networkStatus        \* useNetworkStatus: the status of the last update

vars == <<initialMessages, messages, streamingMessage, isStreaming, error,
          hasInitialized, activated, abortControllerRef, aborted, timers,
          calls, last, delivered, prefUpdates, received, clears, initSends,
          recreations, localStorage, sessionState, now, lastOp, body,
          isSubmitted, userPreferences, networkStatus>>

\* the state of the persistence layer
persistVars == <<localStorage, sessionState, now, lastOp>>

\* the state of the chat session
chatVars == <<initialMessages, messages, streamingMessage, isStreaming, error,
              hasInitialized, activated, abortControllerRef, aborted, timers,
              calls, last, delivered, prefUpdates, received, clears,
              initSends, recreations>>

\* the state of the page around the session
pageVars == <<body, isSubmitted, userPreferences, networkStatus>>

\* what a step of the session alone leaves as it is
outside == <<persistVars, pageVars>>

\* what no step of a sendMessage call touches
others == <<received, clears, recreations>>

Started == {c \in CallIds : calls[c].pc # "new"}
InFlight == {c \in CallIds : calls[c].pc \in {"fetch", "read"}}
Reading == {c \in CallIds : calls[c].pc = "read"}

\* a call whose awaited promise was rejected by the abort of its signal: its
\* continuation is a microtask and runs before any other task
AbortPending == {c \in InFlight : c \in aborted}

Init ==
  /\ initialMessages \in {<<>>, RecoveredLog}
  /\ messages = initialMessages
  /\ streamingMessage = Null
  /\ isStreaming = FALSE
  /\ error = Null
  /\ hasInitialized = FALSE
  /\ activated = FALSE
  /\ abortControllerRef = 0
  /\ aborted = {}
  /\ timers = {}
  /\ calls = [c \in CallIds |-> NewCall]
  /\ last = NoLast
  /\ delivered = 0
  /\ prefUpdates = <<>>
  /\ received = <<>>
  /\ clears = 0
  /\ initSends = 0
  /\ recreations = 0
  /\ localStorage = NoStorage
  /\ sessionState = NoSession
  /\ now = StartTime
  /\ lastOp = NoOp
  /\ body = NoBody
  /\ isSubmitted = {}
  /\ userPreferences = Null
  /\ networkStatus = updateNetworkStatus(TRUE, "4g")

\* ------------------------------------------------- catch and finally blocks
\* prev.slice(0, -1)
sliceLast(msgs) == IF Len(msgs) = 0 THEN <<>> ELSE SubSeq(msgs, 1, Len(msgs) - 1)

\* variant: the rollback removes the first entry, prev.slice(1)
catchMessages_DropFirst(msgs, exc) ==
  IF exc.name = "none" \/ exc.name = "AbortError" THEN msgs
  ELSE IF Len(msgs) = 0 THEN <<>> ELSE Tail(msgs)

\* variant: the rollback also runs when the exception is the AbortError
catchMessages_RollbackOnAbort(msgs, exc) ==
  IF exc.name = "none" THEN msgs ELSE sliceLast(msgs)

\* the message log after the catch block
catchMessages(msgs, exc) ==
  IF exc.name = "none" \/ exc.name = "AbortError" THEN msgs ELSE sliceLast(msgs)

\* the streaming buffer after the catch block
catchStreamingMessage(sm, exc) == IF exc.name = "none" THEN sm ELSE Null

\* the error after the catch block
catchError(err, exc) == IF exc.name = "Error" THEN Text(exc.message) ELSE err

\* variant: the reset sits at the end of the try block, not in finally
finallyIsStreaming_EndOfTry(exc) ==
  IF exc.name = "none" THEN FALSE ELSE isStreaming

\* isStreaming after the finally block
finallyIsStreaming(exc) == FALSE

\* abortControllerRef.current after the finally block
finallyAbortControllerRef(exc) == 0

outcomeOf(exc) ==
  IF exc.name = "none" THEN "completed"
  ELSE IF exc.name = "AbortError" THEN "cancelled" ELSE "failed"

\* the call leaves its try block with exc: catch, finally, return
Settle(c, cs, msgs, sm, err, exc) ==
  /\ messages' = catchMessages(msgs, exc)
  /\ streamingMessage' = catchStreamingMessage(sm, exc)
  /\ error' = catchError(err, exc)
  /\ isStreaming' = finallyIsStreaming(exc)
  /\ abortControllerRef' = finallyAbortControllerRef(exc)
  /\ calls' = [cs EXCEPT ![c] = DoneCall]
  /\ last' = [id |-> c, outcome |-> outcomeOf(exc), content |-> cs[c].content,
              before |-> cs[c].before, completes |-> cs[c].completes,
              appended |-> cs[c].appended,
              removed |-> IF catchMessages(msgs, exc) # msgs
                          THEN <<msgs[Len(msgs)]>> ELSE <<>>]


\* ---------------------------------------------------------------- actions
\* the roles of the entries of msgs after the first n
rolesFrom(msgs, n) == [i \in 1..(Len(msgs) - n) |-> msgs[n + i].role]

\* ref?.abort(): the aborted signals after aborting the controller ref holds
abort(ref) == IF ref # 0 THEN aborted \cup {ref} ELSE aborted

\* variant: the controller and the timer are created before the offline check
sendMessage_TimerFirst(content, isOnline) ==
  LET c == Cardinality(Started) + 1
      appended == IF content # INIT_CONVERSATION
                  THEN Append(messages,
                              Message("user", formatPreferenceMessage(content), c))
                  ELSE messages
      cs == [calls EXCEPT ![c].content = content,
                          ![c].before = messages,
                          ![c].appended = rolesFrom(appended, Len(messages))]
  IN /\ c \in CallIds
     /\ AbortPending = {}
     /\ aborted' = abort(abortControllerRef)
     /\ timers' = timers \cup {c}
     /\ IF ~isOnline
        THEN Settle(c, cs, appended, Text(<<>>), Null, Err(OfflineMessage))
        ELSE /\ messages' = appended
             /\ streamingMessage' = Text(<<>>)
             /\ isStreaming' = TRUE
             /\ error' = Null
             /\ abortControllerRef' = c
             /\ calls' = [cs EXCEPT ![c].pc = "fetch"]
             /\ UNCHANGED last
     /\ UNCHANGED <<initialMessages, delivered, prefUpdates>>

\* sendMessage(content) up to its first await, isOnline being the value of
\* networkStatus.isOnline the callback closes over: preempt, reset the flags,
\* append the optimistic user message, fail at once when offline, otherwise
\* create the controller and the timeout timer and issue the request
sendMessage(content, isOnline) ==
  LET c == Cardinality(Started) + 1
      appended == IF content # INIT_CONVERSATION
                  THEN Append(messages,
                              Message("user", formatPreferenceMessage(content), c))
                  ELSE messages
      cs == [calls EXCEPT ![c].content = content,
                          ![c].before = messages,
                          ![c].appended = rolesFrom(appended, Len(messages))]
  IN /\ c \in CallIds
     /\ AbortPending = {}
     /\ aborted' = abort(abortControllerRef)
     /\ IF ~isOnline
        THEN /\ Settle(c, cs, appended, Text(<<>>), Null, Err(OfflineMessage))
             /\ UNCHANGED timers
        ELSE /\ messages' = appended
             /\ streamingMessage' = Text(<<>>)
             /\ isStreaming' = TRUE
             /\ error' = Null
             /\ abortControllerRef' = c
             /\ timers' = timers \cup {c}
             /\ calls' = [cs EXCEPT ![c].pc = "fetch"]
             /\ UNCHANGED last
     /\ UNCHANGED <<initialMessages, delivered, prefUpdates>>

\* variant: the effect does not look at hasInitialized
autoStart_NoGuard ==
  IF Len(initialMessages) = 0
  THEN /\ hasInitialized' = TRUE
       /\ initSends' = initSends + 1
       /\ \E isOnline \in BOOLEAN : sendMessage(INIT_CONVERSATION, isOnline)
  ELSE UNCHANGED <<initialMessages, messages, streamingMessage, isStreaming,
                   error, hasInitialized, abortControllerRef, aborted,
                   timers, calls, last, delivered, prefUpdates, initSends>>

\* the body of the auto-start effect
autoStart ==
  IF ~hasInitialized /\ Len(initialMessages) = 0
  THEN /\ hasInitialized' = TRUE
       /\ initSends' = initSends + 1
       /\ \E isOnline \in BOOLEAN : sendMessage(INIT_CONVERSATION, isOnline)
  ELSE UNCHANGED <<initialMessages, messages, streamingMessage, isStreaming,
                   error, hasInitialized, abortControllerRef, aborted,
                   timers, calls, last, delivered, prefUpdates, initSends>>

\* the auto-start effect on first activation
Activate ==
  /\ ~activated
  /\ activated' = TRUE
  /\ autoStart
  /\ UNCHANGED others

\* a dependency of sendMessage changes (network status, preferences,
\* conversation id): the callback is re-created, and the effect, which
\* depends on it, runs again
Recreated ==
  /\ activated
  /\ recreations < MaxRecreate
  /\ recreations' = recreations + 1
  /\ autoStart
  /\ UNCHANGED <<activated, received, clears>>

\* a caller of the session sends content
UserSend(content, isOnline) ==
  /\ activated
  /\ sendMessage(content, isOnline)
  /\ UNCHANGED <<hasInitialized, activated, initSends, others>>

\* the timeout callback of call t: abortControllerRef.current?.abort()
TimerFire(t) ==
  /\ t \in timers
  /\ AbortPending = {}
  /\ timers' = timers \ {t}
  /\ aborted' = abort(abortControllerRef)
  /\ UNCHANGED <<initialMessages, messages, streamingMessage, isStreaming,
                 error, hasInitialized, activated, abortControllerRef, calls,
                 last, delivered, prefUpdates, initSends, others>>

\* the awaited fetch or read of call c rejects with the AbortError of its signal
AbortedContinue(c) ==
  /\ c \in AbortPending
  /\ Settle(c, calls, messages, streamingMessage, error, AbortError)
  /\ aborted' = aborted \ {c}
  /\ UNCHANGED <<initialMessages, hasInitialized, activated, timers,
                 delivered, prefUpdates, initSends, others>>

\* the response headers of call c arrive: clearTimeout, status check, reader
FetchResolve(c, status, hasBody) ==
  /\ calls[c].pc = "fetch"
  /\ AbortPending = {}
  /\ timers' = timers \ {c}
  /\ IF ~responseOk(status)
     THEN Settle(c, calls, messages, streamingMessage, error, Err(HttpMessage(status)))
     ELSE IF ~hasBody
     THEN Settle(c, calls, messages, streamingMessage, error, Err(NoBodyMessage))
     ELSE /\ calls' = [calls EXCEPT ![c].pc = "read"]
          /\ UNCHANGED <<messages, streamingMessage, isStreaming, error,
                         abortControllerRef, last>>
  /\ UNCHANGED <<initialMessages, hasInitialized, activated, aborted,
                 delivered, prefUpdates, initSends, others>>

\* the request of call c fails in the transport before any response
FetchReject(c) ==
  /\ calls[c].pc = "fetch"
  /\ AbortPending = {}
  /\ Settle(c, calls, messages, streamingMessage, error, Err(NetworkMessage))
  /\ UNCHANGED <<initialMessages, hasInitialized, activated, aborted, timers,
                 delivered, prefUpdates, initSends, others>>

\* variant: the callback is invoked without looking at data.preferences
onPreferencesUpdate_Always(updates, preferences) == Append(updates, preferences)

\* if (data.preferences) onPreferencesUpdate(data.preferences): the calls of
\* the callback so far
onPreferencesUpdate(updates, preferences) ==
  IF preferences.isNull THEN updates ELSE Append(updates, preferences)

\* data.error ?? "Unknown error"
errorText(line) == IF line.none THEN UnknownMessage ELSE line.text

\* variant: without the inner try, a SyntaxError of JSON.parse ends the call
processLine_RethrowSyntaxError(c, st, line) ==
  IF st.exc.name # "none" THEN st
  ELSE IF line.kind = "chunk"
  THEN [st EXCEPT !.acc = @ \o line.text,
                  !.streamingMessage = Text(st.acc \o line.text)]
  ELSE IF line.kind = "complete_message"
  THEN [st EXCEPT !.messages = Append(@, Question(line.text, c)),
                  !.streamingMessage = Null,
                  !.updates = onPreferencesUpdate(@, line.preferences)]
  ELSE IF line.kind = "complete"
  THEN [st EXCEPT !.messages = Append(@, Message("assistant", st.acc, c)),
                  !.streamingMessage = Null,
                  !.updates = onPreferencesUpdate(@, line.preferences)]
  ELSE IF line.kind = "error"
  THEN [st EXCEPT !.exc = Err(errorText(line))]
  ELSE IF line.kind = "malformed"
  THEN [st EXCEPT !.exc = Err(<<"Unexpected token">>)]
  ELSE st

\* variant: the lines after an error event are still dispatched
processLine_ContinueAfterError(c, st, line) ==
  IF line.kind = "chunk"
  THEN [st EXCEPT !.acc = @ \o line.text,
                  !.streamingMessage = Text(st.acc \o line.text)]
  ELSE IF line.kind = "complete_message"
  THEN [st EXCEPT !.messages = Append(@, Question(line.text, c)),
                  !.streamingMessage = Null,
                  !.updates = onPreferencesUpdate(@, line.preferences)]
  ELSE IF line.kind = "complete"
  THEN [st EXCEPT !.messages = Append(@, Message("assistant", st.acc, c)),
                  !.streamingMessage = Null,
                  !.updates = onPreferencesUpdate(@, line.preferences)]
  ELSE IF line.kind = "error"
  THEN [st EXCEPT !.exc = Err(errorText(line))]
  ELSE st

\* variant: a chunk is put in front of the buffer
processLine_Prepend(c, st, line) ==
  IF st.exc.name # "none" THEN st
  ELSE IF line.kind = "chunk"
  THEN [st EXCEPT !.acc = line.text \o @,
                  !.streamingMessage = Text(line.text \o st.acc)]
  ELSE IF line.kind = "complete_message"
  THEN [st EXCEPT !.messages = Append(@, Question(line.text, c)),
                  !.streamingMessage = Null,
                  !.updates = onPreferencesUpdate(@, line.preferences)]
  ELSE IF line.kind = "complete"
  THEN [st EXCEPT !.messages = Append(@, Message("assistant", st.acc, c)),
                  !.streamingMessage = Null,
                  !.updates = onPreferencesUpdate(@, line.preferences)]
  ELSE IF line.kind = "error"
  THEN [st EXCEPT !.exc = Err(errorText(line))]
  ELSE st

\* variant: a complete event appends only when the buffer is not empty
processLine_SkipEmptyComplete(c, st, line) ==
  IF st.exc.name # "none" THEN st
  ELSE IF line.kind = "chunk"
  THEN [st EXCEPT !.acc = @ \o line.text,
                  !.streamingMessage = Text(st.acc \o line.text)]
  ELSE IF line.kind = "complete_message"
  THEN [st EXCEPT !.messages = Append(@, Question(line.text, c)),
                  !.streamingMessage = Null,
                  !.updates = onPreferencesUpdate(@, line.preferences)]
  ELSE IF line.kind = "complete"
  THEN [st EXCEPT !.messages = IF Len(st.acc) = 0 THEN @
                               ELSE Append(@, Message("assistant", st.acc, c)),
                  !.streamingMessage = Null,
                  !.updates = onPreferencesUpdate(@, line.preferences)]
  ELSE IF line.kind = "error"
  THEN [st EXCEPT !.exc = Err(errorText(line))]
  ELSE st

\* the effect of one line of a fragment on the locals and the session state
processLine(c, st, line) ==
  IF st.exc.name # "none" THEN st
  ELSE IF line.kind = "chunk"
  THEN [st EXCEPT !.acc = @ \o line.text,
                  !.streamingMessage = Text(st.acc \o line.text)]
  ELSE IF line.kind = "complete_message"
  THEN [st EXCEPT !.messages = Append(@, Question(line.text, c)),
                  !.streamingMessage = Null,
                  !.updates = onPreferencesUpdate(@, line.preferences)]
  ELSE IF line.kind = "complete"
  THEN [st EXCEPT !.messages = Append(@, Message("assistant", st.acc, c)),
                  !.streamingMessage = Null,
                  !.updates = onPreferencesUpdate(@, line.preferences)]
  ELSE IF line.kind = "error"
  THEN [st EXCEPT !.exc = Err(errorText(line))]
  ELSE st

RECURSIVE processLines(_, _, _)
processLines(c, st, lines) ==
  IF Len(lines) = 0 THEN st
  ELSE processLines(c, processLine(c, st, Head(lines)), Tail(lines))

\* the complete and complete_message events of a fragment that are dispatched:
\* those before its first error event
RECURSIVE completions(_)
completions(lines) ==
  IF Len(lines) = 0 \/ Head(lines).kind = "error" THEN 0
  ELSE (IF Head(lines).kind \in {"complete", "complete_message"} THEN 1 ELSE 0)
       + completions(Tail(lines))

\* reader.read() of call c yields one fragment: decode, split, dispatch
dispatch(c, lines) ==
  /\ calls[c].pc = "read"
  /\ AbortPending = {}
  /\ LET st0 == [acc |-> calls[c].acc, messages |-> messages,
                 streamingMessage |-> streamingMessage, exc |-> NoExc,
                 updates |-> prefUpdates]
         st == processLines(c, st0, lines)
         cs == [calls EXCEPT ![c].acc = st.acc,
                             ![c].completes = @ + completions(lines),
                             ![c].appended = @ \o rolesFrom(st.messages, Len(messages))]
     IN /\ IF st.exc.name # "none"
           THEN Settle(c, cs, st.messages, st.streamingMessage, error, st.exc)
           ELSE /\ messages' = st.messages
                /\ streamingMessage' = st.streamingMessage
                /\ calls' = cs
                /\ UNCHANGED <<isStreaming, error, abortControllerRef, last>>
        /\ prefUpdates' = st.updates
  /\ UNCHANGED <<initialMessages, hasInitialized, activated, aborted, timers,
                 initSends, clears, recreations>>

\* a fragment of the lines the transport delivers in one behaviour
ReadFragment(c, lines) ==
  /\ delivered + Len(lines) <= MaxRecords
  /\ delivered' = delivered + Len(lines)
  /\ dispatch(c, lines)
  /\ UNCHANGED received

\* reader.read() of call c reports done: leave the loop, finally
ReadDone(c) ==
  /\ calls[c].pc = "read"
  /\ AbortPending = {}
  /\ Settle(c, calls, messages, streamingMessage, error, NoExc)
  /\ UNCHANGED <<initialMessages, hasInitialized, activated, aborted, timers,
                 delivered, prefUpdates, initSends, others>>

\* reader.read() of call c rejects with a transport error
ReadError(c) ==
  /\ calls[c].pc = "read"
  /\ AbortPending = {}
  /\ Settle(c, calls, messages, streamingMessage, error, Err(NetworkMessage))
  /\ UNCHANGED <<initialMessages, hasInitialized, activated, aborted, timers,
                 delivered, prefUpdates, initSends, others>>

\* variant: clearMessages also aborts the request in flight
clearMessages_Aborting ==
  /\ activated
  /\ clears < MaxClears
  /\ clears' = clears + 1
  /\ messages' = <<>>
  /\ streamingMessage' = Null
  /\ error' = Null
  /\ aborted' = abort(abortControllerRef)
  /\ UNCHANGED <<initialMessages, isStreaming, hasInitialized, activated,
                 abortControllerRef, timers, calls, last, delivered,
                 prefUpdates, received, initSends, recreations>>

\* clearMessages()
clearMessages ==
  /\ activated
  /\ clears < MaxClears
  /\ clears' = clears + 1
  /\ messages' = <<>>
  /\ streamingMessage' = Null
  /\ error' = Null
  /\ UNCHANGED <<initialMessages, isStreaming, hasInitialized, activated,
                 abortControllerRef, aborted, timers, calls, last, delivered,
                 prefUpdates, received, initSends, recreations>>

\* a send of a session that issues the init call and one more call
EffectSend(content, isOnline) ==
  /\ Cardinality(Started) < 2
  /\ UserSend(content, isOnline)

\* a send of a session that issues the init call and one more call, with any
\* of the contents the view layer can pass
FormatSend(content, isOnline) ==
  /\ Cardinality(Started) < 2
  /\ UserSend(content, isOnline)

\* the one send of a session that issues a single call
StreamSend(content, isOnline) ==
  /\ Started = {}
  /\ UserSend(content, isOnline)

\* reader.read() of the single call yields one fragment of its stream
StreamRead(c, lines) ==
  /\ Len(received) + Len(lines) <= MaxStream
  /\ received' = received \o lines
  /\ dispatch(c, lines)
  /\ UNCHANGED delivered

\* reader.read() yields a fragment that holds the next record whole
ReadRecord(c, record) ==
  /\ Len(body.sent) < MaxSent
  /\ body.rest = <<>>
  /\ body' = [sent |-> Append(body.sent, record), rest |-> <<>>]
  /\ dispatch(c, <<record>>)
  /\ UNCHANGED <<delivered, received>>

\* reader.read() yields a fragment that ends inside the next record
ReadFirstPart(c, record, at) ==
  /\ Len(body.sent) < MaxSent
  /\ body.rest = <<>>
  /\ body' = [sent |-> Append(body.sent, record), rest |-> <<cut(record, at)[2]>>]
  /\ dispatch(c, <<cut(record, at)[1]>>)
  /\ UNCHANGED <<delivered, received>>

\* reader.read() yields the rest of the record the last fragment ended in
ReadSecondPart(c) ==
  /\ body.rest # <<>>
  /\ body' = [body EXCEPT !.rest = <<>>]
  /\ dispatch(c, body.rest)
  /\ UNCHANGED <<delivered, received>>

\* the body ends after a whole record
BodyDone(c) ==
  /\ body.rest = <<>>
  /\ ReadDone(c)

Next ==
  \/ Activate /\ UNCHANGED outside
  \/ \E content \in UserContents, isOnline \in BOOLEAN : UserSend(content, isOnline) /\ UNCHANGED outside
  \/ \E t \in CallIds : TimerFire(t) /\ UNCHANGED outside
  \/ \E c \in CallIds : AbortedContinue(c) /\ UNCHANGED outside
  \/ \E c \in CallIds, status \in HttpStatuses, hasBody \in BOOLEAN :
       FetchResolve(c, status, hasBody) /\ UNCHANGED outside
  \/ \E c \in CallIds : FetchReject(c) /\ UNCHANGED outside
  \/ \E c \in Reading, lines \in Fragments : ReadFragment(c, lines) /\ UNCHANGED outside
  \/ \E c \in CallIds : ReadDone(c) /\ UNCHANGED outside
  \/ \E c \in CallIds : ReadError(c) /\ UNCHANGED outside

Spec == Init /\ [][Next]_vars

\* a session that issues a single call, reads a stream of events with
\* preferences snapshots, and whose log may be cleared at any time
StreamNext ==
  \/ Activate /\ UNCHANGED outside
  \/ \E content \in UserContents, isOnline \in BOOLEAN : StreamSend(content, isOnline) /\ UNCHANGED outside
  \/ \E t \in CallIds : TimerFire(t) /\ UNCHANGED outside
  \/ \E c \in CallIds : AbortedContinue(c) /\ UNCHANGED outside
  \/ \E c \in CallIds, status \in HttpStatuses, hasBody \in BOOLEAN :
       FetchResolve(c, status, hasBody) /\ UNCHANGED outside
  \/ \E c \in CallIds : FetchReject(c) /\ UNCHANGED outside
  \/ \E c \in Reading, lines \in StreamFragments : StreamRead(c, lines) /\ UNCHANGED outside
  \/ \E c \in CallIds : ReadDone(c) /\ UNCHANGED outside
  \/ \E c \in CallIds : ReadError(c) /\ UNCHANGED outside
  \/ clearMessages /\ UNCHANGED outside

StreamSpec == Init /\ [][StreamNext]_vars

\* ------------------------------------------------------ persistence layer
\* variant: the first 100 entries are kept, messages.slice(0, 100)
limitedMessages_First(msgs) ==
  IF Len(msgs) <= Cap THEN msgs ELSE SubSeq(msgs, 1, Cap)

\* messages.slice(-100)
limitedMessages(msgs) ==
  IF Len(msgs) <= Cap THEN msgs ELSE SubSeq(msgs, Len(msgs) - Cap + 1, Len(msgs))

\* saveMessages(conversationId, messages); accepted is false when
\* localStorage.setItem throws, which the catch block only logs
saveMessages(conversationId, msgs, accepted) ==
  /\ localStorage' =
       IF accepted
       THEN [localStorage EXCEPT ![MessagesKey(conversationId)] =
               stringify(conversationId, limitedMessages(msgs), now)]
       ELSE localStorage
  /\ lastOp' = Op("saveMessages", conversationId, msgs, accepted)
  /\ UNCHANGED <<sessionState, now, chatVars, pageVars>>

\* what the sweep leaves under a chat_messages_ key that holds data
swept(data, cutoff) ==
  IF ~truthy(data) THEN data
  ELSE IF ~parses(data) THEN Absent
  ELSE IF data.timestamp # 0 /\ data.timestamp < cutoff THEN Absent
  ELSE data

\* the session state after the expiry check of the sweep
sweptSession(state) ==
  IF ~state.isNull /\ now - state.lastActivity > SessionMaxAge
  THEN NoSession ELSE state

\* cleanupOldData(): on mount, when the session state changes, and daily
cleanupOldData ==
  /\ localStorage' =
       [key \in StorageKeys |->
          IF startsWith(key, ChatPrefix)
          THEN swept(localStorage[key], now - MessagesMaxAge)
          ELSE localStorage[key]]
  /\ sessionState' = sweptSession(sessionState)
  /\ lastOp' = Op("cleanupOldData", <<>>, <<>>, TRUE)
  /\ UNCHANGED <<now, chatVars, pageVars>>

\* a day passes
Tick ==
  /\ now < StartTime + MaxTicks * Day
  /\ now' = now + Day
  /\ UNCHANGED <<localStorage, sessionState, lastOp, chatVars, pageVars>>

PersistInit ==
  /\ initialMessages = <<>>
  /\ messages = initialMessages
  /\ streamingMessage = Null
  /\ isStreaming = FALSE
  /\ error = Null
  /\ hasInitialized = FALSE
  /\ activated = FALSE
  /\ abortControllerRef = 0
  /\ aborted = {}
  /\ timers = {}
  /\ calls = [c \in CallIds |-> NewCall]
  /\ last = NoLast
  /\ delivered = 0
  /\ prefUpdates = <<>>
  /\ received = <<>>
  /\ clears = 0
  /\ initSends = 0
  /\ recreations = 0
  /\ localStorage \in StorageBefore
  /\ sessionState \in SessionsBefore
  /\ now = StartTime
  /\ lastOp = NoOp
  /\ body = NoBody
  /\ isSubmitted = {}
  /\ userPreferences = Null
  /\ networkStatus = updateNetworkStatus(TRUE, "4g")

PersistNext ==
  \/ \E id \in ConversationIds, msgs \in SavedLogs, accepted \in BOOLEAN :
       saveMessages(id, msgs, accepted)
  \/ cleanupOldData
  \/ Tick

PersistSpec == PersistInit /\ [][PersistNext]_vars

\* a session that issues a single call and reads a stream of well-formed
\* records which the transport hands over whole or cut in two
SplitNext ==
  \/ Activate /\ UNCHANGED outside
  \/ \E content \in UserContents, isOnline \in BOOLEAN :
       StreamSend(content, isOnline) /\ UNCHANGED outside
  \/ \E t \in CallIds : TimerFire(t) /\ UNCHANGED outside
  \/ \E c \in CallIds : AbortedContinue(c) /\ UNCHANGED outside
  \/ \E c \in CallIds, status \in HttpStatuses, hasBody \in BOOLEAN :
       FetchResolve(c, status, hasBody) /\ UNCHANGED outside
  \/ \E c \in CallIds : FetchReject(c) /\ UNCHANGED outside
  \/ \E c \in Reading, record \in Records :
       ReadRecord(c, record)
         /\ UNCHANGED <<persistVars, isSubmitted, userPreferences, networkStatus>>
  \/ \E c \in Reading, record \in Records, at \in Cuts :
       ReadFirstPart(c, record, at)
         /\ UNCHANGED <<persistVars, isSubmitted, userPreferences, networkStatus>>
  \/ \E c \in Reading :
       ReadSecondPart(c)
         /\ UNCHANGED <<persistVars, isSubmitted, userPreferences, networkStatus>>
  \/ \E c \in CallIds : BodyDone(c) /\ UNCHANGED outside
  \/ \E c \in CallIds : ReadError(c) /\ UNCHANGED outside

SplitSpec == Init /\ [][SplitNext]_vars

\* --------------------------------------------------------------- the view
\* MessageInput: the input and its button accept a submit
inputEnabled == activated /\ ~isStreaming /\ language(userPreferences)

\* QuickReplyPills of the log entry at position i: the entry has options and
\* its pills are not submitted (MessageList passes no disabled prop)
pillsEnabled(i) ==
  /\ activated
  /\ i \in 1..Len(messages)
  /\ messages[i].quick_reply_options
  /\ i \notin isSubmitted

\* the entries of the log after the step that the render before did not show
\* at the same position: their components are mounted by this render
mountedNow(shown) ==
  {i \in 1..Len(messages') : i > Len(shown) \/ messages'[i] # shown[i]}

\* the render after a step and its effects, shown being the log of the
\* render before and clicked the pills submitted by the step:
\* updatePreferences with the last snapshot the step handed over, pills that
\* are mounted start submitted when their preference is set, pills of
\* entries that are gone are unmounted, and the save effect of
\* ChatInterface stores a log that changed and is not empty
Rendered(shown, clicked) ==
  /\ userPreferences' =
       IF Len(prefUpdates') > Len(prefUpdates)
       THEN prefUpdates'[Len(prefUpdates')] ELSE userPreferences
  /\ isSubmitted' =
       {i \in (isSubmitted \cup clicked) \ mountedNow(shown) : i <= Len(messages')}
         \cup {i \in mountedNow(shown) :
                 messages'[i].quick_reply_options /\ language(userPreferences')}
  /\ IF messages' # shown /\ Len(messages') > 0
     THEN /\ localStorage' =
               [localStorage EXCEPT ![MessagesKey(CurrentConversation)] =
                  stringify(CurrentConversation, limitedMessages(messages'), now)]
          /\ lastOp' = Op("saveMessages", CurrentConversation, messages', TRUE)
     ELSE UNCHANGED <<localStorage, lastOp>>
  /\ UNCHANGED <<sessionState, now, body, networkStatus>>

\* ChatInterface is mounted: first render, auto-start effect, save effect
Mount ==
  /\ Activate
  /\ Rendered(<<>>, {})

\* MessageInput handleSubmit with a non-empty input
handleSubmit(content, isOnline) ==
  /\ inputEnabled
  /\ Cardinality(Started) < 2
  /\ UserSend(content, isOnline)
  /\ Rendered(messages, {})

\* QuickReplyPills handlePillClick on the pill of a single-selection
\* question at position i, then handleQuickReply
handlePillClick(i, isOnline) ==
  /\ pillsEnabled(i)
  /\ Cardinality(Started) < 2
  /\ UserSend(LanguageEnglish, isOnline)
  /\ Rendered(messages, {i})

\* what the storage holds when the page has recovered the log msgs from it
StorageWith(msgs) ==
  IF Len(msgs) = 0 THEN NoStorage
  ELSE [NoStorage EXCEPT ![MessagesKey(CurrentConversation)] =
          stringify(CurrentConversation, msgs, StartTime)]

\* the page after recovery: the log and the preferences come from the storage
ViewInit ==
  /\ initialMessages \in {<<>>, RecoveredLog}
  /\ messages = initialMessages
  /\ streamingMessage = Null
  /\ isStreaming = FALSE
  /\ error = Null
  /\ hasInitialized = FALSE
  /\ activated = FALSE
  /\ abortControllerRef = 0
  /\ aborted = {}
  /\ timers = {}
  /\ calls = [c \in CallIds |-> NewCall]
  /\ last = NoLast
  /\ delivered = 0
  /\ prefUpdates = <<>>
  /\ received = <<>>
  /\ clears = 0
  /\ initSends = 0
  /\ recreations = 0
  /\ localStorage = StorageWith(initialMessages)
  /\ sessionState = NoSession
  /\ now = StartTime
  /\ lastOp = NoOp
  /\ body = NoBody
  /\ isSubmitted = {}
  /\ userPreferences \in {Null, SnapshotEnglish}
  /\ networkStatus = updateNetworkStatus(TRUE, "4g")

\* the session as the view drives it: sends come from the input and the
\* pills, and every step is followed by the render and its effects
ViewNext ==
  \/ Mount
  \/ \E isOnline \in BOOLEAN : handleSubmit(Hello, isOnline)
  \/ \E i \in 1..Len(messages), isOnline \in BOOLEAN : handlePillClick(i, isOnline)
  \/ \E t \in CallIds : TimerFire(t) /\ Rendered(messages, {})
  \/ \E c \in CallIds : AbortedContinue(c) /\ Rendered(messages, {})
  \/ \E c \in CallIds, status \in HttpStatuses, hasBody \in BOOLEAN :
       FetchResolve(c, status, hasBody) /\ Rendered(messages, {})
  \/ \E c \in CallIds : FetchReject(c) /\ Rendered(messages, {})
  \/ \E c \in Reading, line \in ViewLines :
       ReadFragment(c, <<line>>) /\ Rendered(messages, {})
  \/ \E c \in CallIds : ReadDone(c) /\ Rendered(messages, {})
  \/ \E c \in CallIds : ReadError(c) /\ Rendered(messages, {})

ViewSpec == ViewInit /\ [][ViewNext]_vars

\* ----------------------------------------------------- the page and the network
\* OfflineFallback stops rendering its children: ChatInterface is unmounted
\* and nothing cancels its calls, whose state updates no longer show; they
\* and their timers leave the model
unmount ==
  /\ activated' = FALSE
  /\ calls' = [c \in CallIds |-> IF c \in InFlight THEN DoneCall ELSE calls[c]]
  /\ timers' = {}
  /\ aborted' = {}
  /\ UNCHANGED <<initialMessages, messages, streamingMessage, isStreaming,
                 error, hasInitialized, abortControllerRef, last, delivered,
                 prefUpdates, initSends, others>>

\* OfflineFallback renders its children again: the first render of a new
\* ChatInterface, whose state starts from the props of the page
render ==
  /\ messages' = initialMessages
  /\ streamingMessage' = Null
  /\ isStreaming' = FALSE
  /\ error' = Null
  /\ hasInitialized' = FALSE
  /\ abortControllerRef' = 0
  /\ UNCHANGED <<initialMessages, activated, aborted, timers, calls, last,
                 delivered, prefUpdates, initSends, others>>

\* an online, offline or connection change event: updateNetworkStatus() and
\* the render of OfflineFallback that follows (effects of an earlier render
\* run before the next event is handled)
NetworkEvent(onLine, effectiveType) ==
  /\ activated \/ ~networkStatus.isOnline
  /\ networkStatus' = updateNetworkStatus(onLine, effectiveType)
  /\ IF networkStatus.isOnline /\ ~onLine THEN unmount
     ELSE IF ~networkStatus.isOnline /\ onLine THEN render
     ELSE UNCHANGED chatVars

\* the effects of the first render of a ChatInterface
PageMount ==
  /\ networkStatus.isOnline
  /\ Activate

\* a send of the mounted session, which sees the status of the page
PageSend(content) ==
  /\ Cardinality(Started) < 2
  /\ UserSend(content, networkStatus.isOnline)

\* the session on a page whose network status changes
PageNext ==
  \/ PageMount /\ UNCHANGED outside
  \/ \E onLine \in BOOLEAN, effectiveType \in EffectiveTypes :
       NetworkEvent(onLine, effectiveType)
         /\ UNCHANGED <<persistVars, body, isSubmitted, userPreferences>>
  \/ \E content \in UserContents : PageSend(content) /\ UNCHANGED outside
  \/ \E t \in CallIds : TimerFire(t) /\ UNCHANGED outside
  \/ \E c \in CallIds : AbortedContinue(c) /\ UNCHANGED outside
  \/ \E c \in CallIds, status \in HttpStatuses, hasBody \in BOOLEAN :
       FetchResolve(c, status, hasBody) /\ UNCHANGED outside
  \/ \E c \in CallIds : FetchReject(c) /\ UNCHANGED outside
  \/ \E c \in Reading, line \in Lines : ReadFragment(c, <<line>>) /\ UNCHANGED outside
  \/ \E c \in CallIds : ReadDone(c) /\ UNCHANGED outside
  \/ \E c \in CallIds : ReadError(c) /\ UNCHANGED outside

PageSpec == Init /\ [][PageNext]_vars

\* a session whose user send carries any content of the view layer, and whose
\* streams carry no event
FormatNext ==
  \/ Activate /\ UNCHANGED outside
  \/ \E content \in FormatInputs, isOnline \in BOOLEAN : FormatSend(content, isOnline) /\ UNCHANGED outside
  \/ \E t \in CallIds : TimerFire(t) /\ UNCHANGED outside
  \/ \E c \in CallIds : AbortedContinue(c) /\ UNCHANGED outside
  \/ \E c \in CallIds, status \in HttpStatuses, hasBody \in BOOLEAN :
       FetchResolve(c, status, hasBody) /\ UNCHANGED outside
  \/ \E c \in CallIds : FetchReject(c) /\ UNCHANGED outside
  \/ \E c \in CallIds : ReadDone(c) /\ UNCHANGED outside
  \/ \E c \in CallIds : ReadError(c) /\ UNCHANGED outside

FormatSpec == Init /\ [][FormatNext]_vars

\* a session whose sendMessage is re-created while its calls run
EffectNext ==
  \/ Activate /\ UNCHANGED outside
  \/ Recreated /\ UNCHANGED outside
  \/ \E content \in UserContents, isOnline \in BOOLEAN : EffectSend(content, isOnline) /\ UNCHANGED outside
  \/ \E t \in CallIds : TimerFire(t) /\ UNCHANGED outside
  \/ \E c \in CallIds : AbortedContinue(c) /\ UNCHANGED outside
  \/ \E c \in CallIds, status \in HttpStatuses, hasBody \in BOOLEAN :
       FetchResolve(c, status, hasBody) /\ UNCHANGED outside
  \/ \E c \in CallIds : FetchReject(c) /\ UNCHANGED outside
  \/ \E c \in Reading, lines \in Fragments : ReadFragment(c, lines) /\ UNCHANGED outside
  \/ \E c \in CallIds : ReadDone(c) /\ UNCHANGED outside
  \/ \E c \in CallIds : ReadError(c) /\ UNCHANGED outside

EffectSpec == Init /\ [][EffectNext]_vars


\* timers fire and pending continuations run; the server owes nothing
LiveSpec ==
  /\ Spec
  /\ WF_vars(\E t \in CallIds : TimerFire(t) /\ UNCHANGED outside)
  /\ WF_vars(\E c \in CallIds : AbortedContinue(c) /\ UNCHANGED outside)

\* ----------------------------------------------------------- sanity checks
TypeOK ==
  /\ messages \in Seq([role : {"user", "assistant"}, content : Seq(STRING),
                        by : 0..MaxCalls, quick_reply_options : BOOLEAN])
  /\ isStreaming \in BOOLEAN
  /\ hasInitialized \in BOOLEAN
  /\ abortControllerRef \in 0..MaxCalls
  /\ aborted \subseteq CallIds
  /\ timers \subseteq CallIds
  /\ delivered \in 0..MaxRecords

\* the controller reference, when set, is the controller of a pending request
RefIsInFlight == abortControllerRef # 0 => abortControllerRef \in InFlight

\* the formatter on the content the callers send
FormatterExample ==
  formatPreferenceMessage(ToneCasual) =
    <<"P","r","e","f","e","r","r","e","d"," ","T","o","n","e"," ","o","f"," ",
      "V","o","i","c","e",":"," ","C","a","s","u","a","l">>

\* --------------------------------------------------------- steps of a call
\* this step is the one in which call c reaches its terminal state
Ends(c) == calls[c].pc # "done" /\ calls'[c].pc = "done"
EndsAs(c, outcome) == Ends(c) /\ last'.id = c /\ last'.outcome = outcome

\* the call that returned last returned with outcome
LastDone(outcome) == last.id # 0 /\ last.outcome = outcome
LastIsInit == last.content = INIT_CONVERSATION

\* the optimistic user message the call that returned last appended
LastOptimisticMessage ==
  Message("user", formatPreferenceMessage(last.content), last.id)

\* a call started after call c
Superseded(c) == \E d \in CallIds : d > c /\ calls[d].pc # "new"

\* ------------------------------------------------------------------ claims
\* C1: every sendMessage call that ends in failure other than cancellation
\* leaves the message log as long as it was before the call, leaves error a
\* non-null text (holding the status code after an HTTP failure) and leaves
\* isStreaming false.
C1_FailedSendNetZero ==
  [][\A c \in CallIds :
       EndsAs(c, "failed") =>
         /\ Len(messages') = Len(last'.before)
         /\ ~error'.isNull
         /\ ~isStreaming'
         /\ \A status \in HttpStatuses :
              (~responseOk(status) /\ FetchResolve(c, status, TRUE)) =>
                \E i \in 1..Len(error'.text) : error'.text[i] = statusString(status)
    ]_vars

\* C2: the entry the rollback of a failed call removes is exactly the
\* optimistic user message that same call appended, and nothing is removed
\* when the call appended none (init sentinel).
C2_RollbackRemovesOwnUserMessage ==
  LastDone("failed") =>
    last.removed = IF LastIsInit THEN <<>> ELSE <<LastOptimisticMessage>>

\* C3: at most one request is in flight and not aborted.
C3_SingleFlight == Cardinality({c \in InFlight : c \notin aborted}) <= 1

\* C4: when a call starts while an earlier one is in flight, the earlier one
\* is aborted by that step, and from then on the earlier call changes neither
\* the message log nor error.
C4_SecondCallSilencesFirst ==
  [][\A c \in CallIds :
       /\ (c \in InFlight /\ ~Superseded(c) /\ Superseded(c)') => c \in aborted'
       /\ (c \in InFlight /\ Superseded(c) /\ calls'[c] # calls[c]) =>
            (messages' = messages /\ error' = error)
    ]_vars

\* C5 as stated: a call that ends by cancellation leaves the message log as
\* it was before the call, and error null.
C5_CancelledLogAsBeforeCall ==
  [][\A c \in CallIds :
       EndsAs(c, "cancelled") =>
         (messages' = last'.before /\ error'.isNull)
    ]_vars

\* C5 amended: the cancellation path of a call changes neither the message
\* log nor error; the optimistic user message the call appended is not
\* rolled back.
C5_CancellationChangesNothing ==
  [][\A c \in CallIds :
       EndsAs(c, "cancelled") => (messages' = messages /\ error' = error)
    ]_vars

\* a cancelled call whose optimistic user message is still the last entry
C5_Witness ==
  /\ LastDone("cancelled")
  /\ ~LastIsInit
  /\ Len(messages) > 0
  /\ messages[Len(messages)] = LastOptimisticMessage

\* C6: whenever no call is in flight the streaming buffer is null.
C6_IdleBufferNull == InFlight = {} => streamingMessage.isNull

\* C7: the step in which a call reaches its terminal state, whatever the
\* exit path, sets isStreaming to false, and the call returns with one of the
\* three outcomes of the catch clause.
C7_CleanupResetsIsStreaming ==
  [][\A c \in CallIds :
       Ends(c) =>
         /\ ~isStreaming'
         /\ last'.id = c
         /\ last'.outcome \in {"completed", "failed", "cancelled"}
    ]_vars

\* a call preempted by a newer one has returned through the cancellation
\* path while the newer call is still in flight
C7_Witness == LastDone("cancelled") /\ InFlight # {} /\ ~isStreaming

\* C8: whenever no call is in flight, every user message of the log is
\* followed by an assistant message.
C8_NoUnresolvedUserTurn ==
  InFlight = {} =>
    \A i \in 1..Len(messages) :
      messages[i].role = "user" =>
        (i < Len(messages) /\ messages[i + 1].role = "assistant")

\* C9 as stated: a call that ends successfully has appended exactly one user
\* message followed by one assistant message (for the init sentinel no user
\* message and at most one assistant message), whatever events were on the
\* stream.
C9_SuccessAppendsTwo ==
  LastDone("completed") =>
    IF LastIsInit
    THEN last.appended \in {<<>>, <<"assistant">>}
    ELSE last.appended = <<"user", "assistant">>

\* C9 amended: a call that ends successfully has appended one user message
\* (none for the init sentinel) followed by one assistant message for each
\* complete or complete_message event dispatched on its stream.
C9_SuccessAppendsOnePerCompletion ==
  LastDone("completed") =>
    last.appended =
      (IF LastIsInit THEN <<>> ELSE <<"user">>)
        \o [i \in 1..last.completes |-> "assistant"]

\* a successful user send whose stream carried two completion events
C9_Witness == LastDone("completed") /\ ~LastIsInit /\ last.completes = 2

\* C10: every call in flight eventually reaches its terminal state and
\* isStreaming eventually returns to false, given only that timers fire.
C10_EveryCallTerminates ==
  \A c \in CallIds :
    (calls[c].pc \in {"fetch", "read"}) ~> (calls[c].pc = "done" /\ ~isStreaming)

\* ------------------------------------------------- the stream of one call
\* the position of the first error event of lines, 0 when there is none
ErrorAt(lines) ==
  IF \E i \in 1..Len(lines) : lines[i].kind = "error"
  THEN CHOOSE i \in 1..Len(lines) :
         lines[i].kind = "error" /\ \A j \in 1..(i - 1) : lines[j].kind # "error"
  ELSE 0

\* the lines before the first error event
BeforeError(lines) ==
  IF ErrorAt(lines) = 0 THEN lines ELSE SubSeq(lines, 1, ErrorAt(lines) - 1)

\* the content of the chunk events of lines, concatenated in arrival order
RECURSIVE chunkText(_)
chunkText(lines) ==
  IF Len(lines) = 0 THEN <<>>
  ELSE (IF Head(lines).kind = "chunk" THEN Head(lines).text ELSE <<>>)
       \o chunkText(Tail(lines))

\* this step reads a fragment of the stream
Reads == received' # received

\* C11: within one stream, after a fragment that ends with a chunk event the
\* published streamingMessage is the concatenation, in arrival order, of the
\* content of all chunk events received so far; after a fragment that ends
\* with a complete event the last entry of the log is an assistant message
\* with exactly that concatenation as content and streamingMessage is null.
C11_ChunksConcatenateInOrder ==
  [][(Reads /\ ErrorAt(received') = 0) =>
       LET line == received'[Len(received')]
       IN /\ line.kind = "chunk" =>
               streamingMessage' = Text(chunkText(received'))
          /\ line.kind = "complete" =>
               /\ Len(messages') > 0
               /\ messages'[Len(messages')].role = "assistant"
               /\ messages'[Len(messages')].content = chunkText(received')
               /\ streamingMessage'.isNull
    ]_vars

\* the stream "a", "b", complete has been read: the assistant message is "ab"
C11_Witness ==
  /\ received = <<Line("chunk", <<"a">>), Line("chunk", <<"b">>), Line("complete", <<>>)>>
  /\ Len(messages) > 0
  /\ messages[Len(messages)].content = <<"a", "b">>
  /\ streamingMessage.isNull

\* C12: a sendMessage call made while the connectivity signal reports offline
\* fails in that same step with the fixed offline text as error, issues no
\* request (no call enters the fetch) and creates no timeout timer; the step
\* starts that one call only, and a call that has returned never runs again.
C12_OfflineFailsAtOnce ==
  [][\A content \in UserContents \cup {INIT_CONVERSATION} :
       /\ sendMessage(content, FALSE) =>
            LET c == Cardinality(Started) + 1
            IN /\ last'.id = c /\ last'.outcome = "failed"
               /\ calls'[c].pc = "done"
               /\ error' = Text(<<"You're offline. Please check your connection and try again.">>)
               /\ InFlight' \subseteq InFlight
               /\ timers' = timers
               /\ Started' = Started \cup {c}
       /\ \A d \in CallIds : calls[d].pc = "done" => calls'[d].pc = "done"
    ]_vars

\* a user send made offline has failed with the offline text, with no timer
\* pending and no request in flight
C12_Witness ==
  /\ LastDone("failed")
  /\ ~LastIsInit
  /\ error = Text(OfflineMessage)
  /\ timers = {}
  /\ InFlight = {}

\* the fragment this step reads
FragmentRead == SubSeq(received', Len(received) + 1, Len(received'))

\* C13: the fragment in which an error event is processed ends the call as
\* failed with the event's error text as error ("Unknown error" when the
\* event has none); the step changes the state exactly as the fragment cut
\* after the error event would, so no later record of the fragment reaches
\* the log, the buffer or the preferences callback; and no fragment is read
\* after an error event.
C13_ErrorEventEndsStream ==
  [][/\ (Reads /\ ErrorAt(FragmentRead) # 0) =>
          LET event == FragmentRead[ErrorAt(FragmentRead)]
          IN /\ LastDone("failed")'
             /\ Reading' = {}
             /\ error' = Text(IF event.none THEN <<"Unknown error">> ELSE event.text)
             /\ streamingMessage'.isNull
             /\ \E c \in Reading :
                  dispatch(c, SubSeq(FragmentRead, 1, ErrorAt(FragmentRead)))
     /\ ErrorAt(received) # 0 => ~Reads
    ]_vars

\* an error event without error text, followed in its fragment by a complete
\* event with a preferences snapshot: the call failed with "Unknown error"
\* and the callback was not invoked
C13_Witness ==
  /\ received = <<EventLine("error", <<>>, TRUE, Null),
                  EventLine("complete", <<>>, FALSE, Snapshot)>>
  /\ LastDone("failed")
  /\ error = Text(UnknownMessage)
  /\ prefUpdates = <<>>

\* the lines that carry the event marker and a parsable payload
Skip(lines) ==
  SelectSeq(lines, LAMBDA line : line.kind \notin {"malformed", "nomarker"})

\* C14: a step that reads a fragment changes the state exactly as the same
\* fragment without its unparsable records and its lines without the event
\* marker would: such a line changes neither the log, the buffer, the error
\* nor the preferences, it does not end the call, and the well-formed
\* records before and after it are processed.
C14_MalformedRecordSkipped ==
  [][Reads => \E c \in Reading : dispatch(c, Skip(FragmentRead))]_vars

\* after an unparsable record and a line without the marker, a
\* complete_message event of the same stream was applied and the call reads on
C14_Witness ==
  /\ received = <<Line("malformed", <<>>), Line("nomarker", <<>>),
                  EventLine("complete_message", <<"q">>, FALSE, Snapshot)>>
  /\ Reading # {}
  /\ error.isNull
  /\ Len(messages) > 0 /\ messages[Len(messages)].content = <<"q">>
  /\ prefUpdates = <<Snapshot>>

\* p is q or a beginning of q
IsPrefix(p, q) == Len(p) <= Len(q) /\ SubSeq(q, 1, Len(p)) = p

\* C15: every step of a sendMessage call either leaves the message log
\* alone, appends entries at its end, or removes its last entry: the entries
\* that stay keep their order and their content.
C15_LogAppendOrDropLast ==
  [][\/ IsPrefix(messages, messages')
     \/ messages' = sliceLast(messages)
    ]_vars

\* the rollback of a failed call has removed the last entry of a log whose
\* earlier entries are still there
C15_Witness ==
  /\ LastDone("failed")
  /\ last.removed # <<>>
  /\ Len(messages) >= 2
  /\ IsPrefix(RecoveredLog, messages)

\* C16: a session constructed with an empty log has issued the init sentinel
\* exactly once from its first activation on, however often sendMessage is
\* re-created afterwards and however the init call ends; a session
\* constructed with a non-empty log never issues it.
C16_InitSentOnce ==
  initSends = IF activated /\ Len(initialMessages) = 0 THEN 1 ELSE 0

\* the init call has failed and sendMessage has been re-created twice: the
\* sentinel was sent once
C16_Witness ==
  /\ LastDone("failed")
  /\ LastIsInit
  /\ InFlight = {}
  /\ recreations >= 2
  /\ initSends = 1

\* the snapshots of the completion events of lines that carry one, in order
RECURSIVE SnapshotsOf(_)
SnapshotsOf(lines) ==
  IF Len(lines) = 0 THEN <<>>
  ELSE (IF /\ Head(lines).kind \in {"complete", "complete_message"}
           /\ ~Head(lines).preferences.isNull
        THEN <<Head(lines).preferences>> ELSE <<>>)
       \o SnapshotsOf(Tail(lines))

\* C17: a step invokes the preference-update callback only when it reads a
\* fragment, and then exactly once, in order, for each complete or
\* complete_message event with a preferences snapshot that the fragment holds
\* before its first error event, with that snapshot; every other step (a
\* start, a failure, a cancellation, the end of the stream) invokes nothing.
C17_CallbackOncePerSnapshot ==
  [][prefUpdates' =
       prefUpdates \o (IF Reads THEN SnapshotsOf(BeforeError(FragmentRead)) ELSE <<>>)
    ]_vars

\* a complete event without preferences, one with a snapshot, then an error
\* event: the callback was invoked once, with the snapshot
C17_Witness ==
  /\ received = <<Line("complete", <<>>),
                  EventLine("complete", <<>>, FALSE, Snapshot),
                  Line("error", <<"boom">>)>>
  /\ LastDone("failed")
  /\ prefUpdates = <<Snapshot>>

\* C18: a clearMessages step sets the message log to empty and the streaming
\* buffer and error to null, and changes neither isStreaming nor the
\* controller reference, the aborted signals, the timers or any call; a
\* fragment read after it is dispatched as any other.
C18_ClearLeavesRequestAlone ==
  [][/\ clears' # clears =>
          /\ messages' = <<>>
          /\ streamingMessage'.isNull
          /\ error'.isNull
          /\ UNCHANGED <<isStreaming, abortControllerRef, aborted, timers, calls>>
     /\ (clears > 0 /\ Reads) => \E c \in Reading : dispatch(c, FragmentRead)
    ]_vars

\* the log was cleared while the stream was read: the call streams on and the
\* assistant message of its later complete event is the only entry of the log
C18_Witness ==
  /\ clears = 1
  /\ Reading # {}
  /\ isStreaming
  /\ received = <<Line("chunk", <<"a">>), Line("complete", <<>>)>>
  /\ Len(messages) = 1
  /\ messages[1].role = "assistant" /\ messages[1].content = <<"a">>
  /\ Len(initialMessages) > 0

\* ------------------------------------------------------------ persistence
\* the last min(n, 100) entries of msgs, in their order
LastHundred(msgs) ==
  LET n == Len(msgs)
      m == IF n < 100 THEN n ELSE 100
  IN [i \in 1..m |-> msgs[n - m + i]]

\* no stored log holds more than 100 entries
CappedStorage(ls) == \A key \in StorageKeys : Len(ls[key].messages) <= 100

\* C19 as stated: every saveMessages(conversationId, messages) step leaves
\* under chat_messages_<conversationId> exactly the last min(n, 100) entries
\* of messages in their order, changes no other key, and no stored log holds
\* more than 100 entries.
C19_SaveStoresLastHundred ==
  [][\A id \in ConversationIds, msgs \in SavedLogs, accepted \in BOOLEAN :
       saveMessages(id, msgs, accepted) =>
         /\ localStorage'[MessagesKey(id)].kind = "json"
         /\ localStorage'[MessagesKey(id)].messages = LastHundred(msgs)
         /\ \A key \in StorageKeys \ {MessagesKey(id)} :
              localStorage'[key] = localStorage[key]
         /\ CappedStorage(localStorage')
    ]_vars

\* C19 amended: a saveMessages step whose write the storage accepts leaves
\* under chat_messages_<conversationId> exactly the last min(n, 100) entries
\* of messages in their order; a step whose write the storage rejects leaves
\* that key as it was; either way no other key changes and no stored log
\* holds more than 100 entries.
C19_AcceptedSaveStoresLastHundred ==
  [][\A id \in ConversationIds, msgs \in SavedLogs, accepted \in BOOLEAN :
       saveMessages(id, msgs, accepted) =>
         /\ IF accepted
            THEN /\ localStorage'[MessagesKey(id)].kind = "json"
                 /\ localStorage'[MessagesKey(id)].conversationId = id
                 /\ localStorage'[MessagesKey(id)].messages = LastHundred(msgs)
            ELSE localStorage'[MessagesKey(id)] = localStorage[MessagesKey(id)]
         /\ \A key \in StorageKeys \ {MessagesKey(id)} :
              localStorage'[key] = localStorage[key]
         /\ CappedStorage(localStorage')
    ]_vars

\* a log of 101 entries was saved: the stored log is its entries 2 to 101
C19_Witness ==
  /\ lastOp = Op("saveMessages", <<"c","1">>, LogOf(101), TRUE)
  /\ Len(localStorage[MessagesKey(<<"c","1">>)].messages) = 100
  /\ localStorage[MessagesKey(<<"c","1">>)].messages[1] = LogOf(101)[2]
  /\ localStorage[MessagesKey(<<"c","1">>)].messages[100] = LogOf(101)[101]

\* JSON.parse throws on the stored text
Unparsable(data) == data.kind \in {"empty", "garbage"}

\* C20: after a cleanup sweep no chat_messages_ entry has a stored timestamp
\* older than 7 days, no chat_messages_ entry is unparsable, and the session
\* state is null when its last activity was more than 24 hours ago; a
\* chat_messages_ entry not older than 7 days, a session state not older than
\* 24 hours and every other key are as before the sweep.
C20_SweepEvictsOldAndUnparsable ==
  [][cleanupOldData =>
       /\ \A key \in StorageKeys :
            IF startsWith(key, ChatPrefix)
            THEN /\ ~Unparsable(localStorage'[key])
                 /\ localStorage'[key].kind = "json" =>
                      localStorage'[key].timestamp >= now - 7 * Day
                 /\ (/\ localStorage[key].kind = "json"
                     /\ localStorage[key].timestamp >= now - 7 * Day) =>
                      localStorage'[key] = localStorage[key]
            ELSE localStorage'[key] = localStorage[key]
       /\ ~sessionState.isNull =>
            IF now - sessionState.lastActivity > Day
            THEN sessionState'.isNull
            ELSE sessionState' = sessionState
    ]_vars

\* ---------------------------------------------------------- the formatter
\* the number of colons of s
Colons(s) == Cardinality({i \in 1..Len(s) : s[i] = ":"})

\* the text of s before its first colon
BeforeColon(s) == SubSeq(s, 1, IndexOfCh(s, ":") - 1)

\* the user entries of the log that calls in flight appended, each with the
\* content its call was given
ShownInputs ==
  {<<calls[messages[i].by].content, messages[i].content>> :
     i \in {j \in 1..Len(messages) :
              /\ messages[j].role = "user"
              /\ messages[j].by \in InFlight}}

\* C21: the formatter returns its input unchanged when the input does not
\* start with the reserved prefix or when the rest does not have exactly two
\* colon-separated parts; otherwise it returns a text with the separator
\* ": " that starts with the label of the lookup table when the type is one
\* of its keys; "PREFERENCE_SELECTION:tone:casual" gives "Preferred Tone of
\* Voice: Casual"; and the same input always gives the same output.
C21_FormatterContract ==
  /\ \A shown \in ShownInputs :
       LET input == shown[1]
           output == shown[2]
           rest == sliceFrom(input, Len(PREFIX))
       IN IF ~startsWith(input, PREFIX) \/ Colons(rest) # 1
          THEN output = input
          ELSE /\ \E i \in 1..(Len(output) - 1) :
                    output[i] = ":" /\ output[i + 1] = " "
               /\ HasKey(formatMap, BeforeColon(rest)) =>
                    startsWith(output,
                               Lookup(formatMap, BeforeColon(rest)) \o <<":", " ">>)
               /\ input = ToneCasual =>
                    output = <<"P","r","e","f","e","r","r","e","d"," ","T","o","n","e"," ","o","f"," ","V","o","i","c","e",":"," ","C","a","s","u","a","l">>
  /\ \A shown, other \in ShownInputs : shown[1] = other[1] => shown[2] = other[2]

\* the log shows the selection of a special-case value under the label of its
\* type: "PREFERENCE_SELECTION:format:q_and_a" as "Format Preference: Q&A"
C21_Witness ==
  <<FormatQAndA, <<"F","o","r","m","a","t"," ","P","r","e","f","e","r","e","n","c","e",":"," ","Q","&","A">>>> \in ShownInputs

\* C22: "PREFERENCE_SELECTION:topics:technology,sports" is shown in the log
\* as "News Topic Interest: Technology, Sports".
C22_TopicsSelectionLabel ==
  \A shown \in ShownInputs :
    shown[1] = TopicsSelection =>
      shown[2] = <<"N","e","w","s"," ","T","o","p","i","c"," ","I","n","t","e","r","e","s","t",":"," ","T","e","c","h","n","o","l","o","g","y",","," ","S","p","o","r","t","s">>

\* -------------------------------------------------- flags and timers
\* C23: isStreaming is true in every state in which a sendMessage call is in
\* flight, also when that call preempted an earlier call whose cancellation
\* cleanup runs after it started (a call whose signal is aborted and whose
\* cleanup is the next thing to run is not counted).
C23_StreamingWhileInFlight == InFlight \ aborted # {} => isStreaming

\* C24: the timeout timer of a call aborts no request but that of its own
\* call, and a call that has returned leaves no pending timer.
C24_TimerAbortsOwnCallOnly ==
  [][/\ \A t \in CallIds : TimerFire(t) => aborted' \subseteq aborted \cup {t}
     /\ \A t \in timers' : calls'[t].pc # "done"
    ]_vars

\* ------------------------------------------------------- read boundaries
\* the log when call c began to read its stream
LogAtStart(c) ==
  IF calls[c].content = INIT_CONVERSATION THEN calls[c].before
  ELSE Append(calls[c].before,
              Message("user", formatPreferenceMessage(calls[c].content), c))

\* the locals and the session state after the records sent so far when
\* every record arrives whole
Whole(c) ==
  processLines(c, [acc |-> <<>>, messages |-> LogAtStart(c),
                   streamingMessage |-> Text(<<>>), exc |-> NoExc,
                   updates |-> <<>>],
               body.sent)

\* C25: whenever the call is between two records, the accumulated text, the
\* message log, the streaming buffer and the calls of the preferences
\* callback are what the records sent so far give when each of them arrives
\* in one fragment, however the transport cut them.
C25_ResultIndependentOfFragments ==
  \A c \in Reading :
    body.rest = <<>> =>
      /\ Whole(c).exc = NoExc
      /\ calls[c].acc = Whole(c).acc
      /\ messages = Whole(c).messages
      /\ streamingMessage = Whole(c).streamingMessage
      /\ prefUpdates = Whole(c).updates

\* ---------------------------------------------------------------- the view
\* C26: the view never calls sendMessage while isStreaming is true: a step
\* of the mounted view in which a call starts begins in a state where
\* isStreaming is false.
C26_NoSendWhileStreaming ==
  [][(activated /\ \E c \in CallIds : calls[c].pc = "new" /\ calls'[c].pc # "new")
       => ~isStreaming
    ]_vars

\* C27: in every idle state whose last call failed, the input accepts a
\* submit or the pills of some question of the log can be selected.
C27_CanResendAfterFailure ==
  (activated /\ InFlight = {} /\ LastDone("failed")) =>
    (inputEnabled \/ \E i \in 1..Len(messages) : pillsEnabled(i))

\* the log recoverData reads for the conversation of the page
PersistedLog ==
  LET data == localStorage[MessagesKey(CurrentConversation)]
  IN IF truthy(data) /\ parses(data) THEN data.messages ELSE <<>>

\* C28: whenever no call is in flight, the log stored for the conversation
\* is the last 100 entries of the log in memory.
C28_StorageMirrorsLog ==
  (activated /\ InFlight = {}) => PersistedLog = LastHundred(messages)

\* ------------------------------------------------- the page and the network
\* the auto-start effect of the render sends the init sentinel
SendsInit == ~hasInitialized /\ Len(initialMessages) = 0

\* C29: when connectivity comes back, the log the chat view shows contains
\* every message of the log it showed when connectivity was lost, and no
\* init sentinel is sent for a conversation that had messages.
C29_LogSurvivesReconnection ==
  [][(~networkStatus.isOnline /\ networkStatus'.isOnline) =>
       /\ IsPrefix(messages, messages')
       /\ Len(messages) > 0 => ~SendsInit'
    ]_vars

\* C30: getRecommendedTimeout('api') is 0 when the status is offline, and
\* otherwise 30000 ms times 3 for slow-2g, 2 for 2g, 1.5 for 3g and 1 for 4g
\* or an unknown effective type.
C30_TimeoutScalesWithQuality ==
  getRecommendedTimeout(networkStatus, "api") =
    IF ~networkStatus.isOnline THEN 0
    ELSE IF networkStatus.effectiveType = "slow-2g" THEN 90000
    ELSE IF networkStatus.effectiveType = "2g" THEN 60000
    ELSE IF networkStatus.effectiveType = "3g" THEN 45000
    ELSE 30000

====
